---- MODULE Spec2Model ----
(***************************************************************************)
(* A model of padz.py, the Python client of the padz command-line tool.    *)
(*                                                                         *)
(* Text (the child's stdout and stderr, stdin content, error messages) is  *)
(* a sequence of lexemes.  A lexeme is a record [k, v]: k is its kind      *)
(* ("p" punctuation, "s" a quoted string, "n" a number, "l" one of the     *)
(* literals null/true/false, "w" white space, "x" any other word) and v    *)
(* its content, a sequence of chunks.  A Python str that is a JSON string  *)
(* value or key is the sequence of chunks of its lexeme.                   *)
(***************************************************************************)
EXTENDS Integers, Sequences, FiniteSets, TLC

VARIABLES
  pc,        \* "idle": no call in progress; "done": a call has returned or raised
  cwd,       \* PadzClient.cwd of the client in use ("None" when not set)
  op,        \* the operation called last
  params,    \* the parameters it was called with
  argv,      \* cmd, the argument vector given to subprocess.run (<<>>: none)
  stdin,     \* input_text given to subprocess.run
  spawn,     \* what subprocess.run did: an exception, or exit code and streams
  output,    \* how _exec ended: the stdout it returned or the error it raised
  result,    \* how the operation ended: its return value or the error it raised
  nPassed,   \* calls that passed the client-side validation
  nSpawns    \* calls of subprocess.run so far

vars == <<pc, cwd, op, params, argv, stdin, spawn, output, result, nPassed, nSpawns>>

----------------------------------------------------------------------------
(* Bounds of the model *)

\* longest text of arbitrary lexemes the child writes to stdout
MaxOutLen == 2

\* longest text of arbitrary lexemes the child writes to stderr
MaxErrLen == 1

\* largest exit code of the child
MaxExitCode == 1

\* largest scratch index passed to an operation
MaxIndex == 2

\* number of calls that reach _exec in one behaviour
MaxCalls == 2

----------------------------------------------------------------------------
(* Lexemes *)

P(c) == [k |-> "p", v |-> <<c>>]
Str(chunks) == [k |-> "s", v |-> chunks]
Num(c) == [k |-> "n", v |-> <<c>>]
Lit(c) == [k |-> "l", v |-> <<c>>]
Ws(c) == [k |-> "w", v |-> <<c>>]
Word(c) == [k |-> "x", v |-> <<c>>]

LB == P("{")
RB == P("}")
LK == P("[")
RK == P("]")
Colon == P(":")
Comma == P(",")
SP == Ws(" ")
NL == Ws("\n")

----------------------------------------------------------------------------
(* JSON values, as json.loads builds them *)

JStr(chunks) == [t |-> "str", s |-> chunks]
JNum(c) == [t |-> "num", n |-> c]
JLit(c) == [t |-> "lit", l |-> c]
JObj(m) == [t |-> "obj", m |-> m]
JArr(a) == [t |-> "arr", a |-> a]
JNone == JLit("null")

IsDict(d) == d.t = "obj"
HasKey(d, key) == IsDict(d) /\ key \in DOMAIN d.m

\* the parser's results: a value and the position after it, or a failure
Parsed(val, next) == [ok |-> TRUE, val |-> val, next |-> next]
ParseFail == [ok |-> FALSE, val |-> JNone, next |-> 0]

RECURSIVE SkipWs(_, _)
SkipWs(t, i) ==
  IF i <= Len(t) /\ t[i].k = "w" THEN SkipWs(t, i + 1) ELSE i

IsTok(t, i, tok) == i <= Len(t) /\ t[i] = tok

RECURSIVE ParseValue(_, _)
RECURSIVE ParseMembers(_, _, _)
RECURSIVE ParseElements(_, _, _)

\* after a "{" or a ",": "key" : value, then "," or "}"; a repeated key
\* keeps its last value
ParseMembers(t, i, m) ==
  IF ~(i <= Len(t) /\ t[i].k = "s") THEN ParseFail
  ELSE LET key == t[i].v
           c == SkipWs(t, i + 1)
       IN IF ~IsTok(t, c, Colon) THEN ParseFail
          ELSE LET r == ParseValue(t, SkipWs(t, c + 1))
               IN IF ~r.ok THEN ParseFail
                  ELSE LET m2 == (key :> r.val) @@ m
                           e == SkipWs(t, r.next)
                       IN IF IsTok(t, e, RB) THEN Parsed(JObj(m2), e + 1)
                          ELSE IF IsTok(t, e, Comma)
                                 THEN ParseMembers(t, SkipWs(t, e + 1), m2)
                                 ELSE ParseFail

\* after a "[" or a ",": value, then "," or "]"
ParseElements(t, i, a) ==
  LET r == ParseValue(t, i)
  IN IF ~r.ok THEN ParseFail
     ELSE LET a2 == Append(a, r.val)
              e == SkipWs(t, r.next)
          IN IF IsTok(t, e, RK) THEN Parsed(JArr(a2), e + 1)
             ELSE IF IsTok(t, e, Comma)
                    THEN ParseElements(t, SkipWs(t, e + 1), a2)
                    ELSE ParseFail

ParseValue(t, i) ==
  IF i > Len(t) THEN ParseFail
  ELSE CASE t[i].k = "s" -> Parsed(JStr(t[i].v), i + 1)
         [] t[i].k = "n" -> Parsed(JNum(t[i].v[1]), i + 1)
         [] t[i].k = "l" -> Parsed(JLit(t[i].v[1]), i + 1)
         [] t[i] = LB ->
              LET j == SkipWs(t, i + 1)
              IN IF IsTok(t, j, RB) THEN Parsed(JObj(<<>>), j + 1)
                 ELSE ParseMembers(t, j, <<>>)
         [] t[i] = LK ->
              LET j == SkipWs(t, i + 1)
              IN IF IsTok(t, j, RK) THEN Parsed(JArr(<<>>), j + 1)
                 ELSE ParseElements(t, j, <<>>)
         [] OTHER -> ParseFail

\* json.loads: one value, white space allowed around it, nothing after it;
\* ok = FALSE is json.JSONDecodeError
json_loads(t) ==
  LET r == ParseValue(t, SkipWs(t, 1))
  IN IF r.ok /\ SkipWs(t, r.next) = Len(t) + 1 THEN r ELSE ParseFail

\* str.strip(): leading and trailing white space removed
RECURSIVE lstrip(_)
lstrip(t) == IF t # <<>> /\ Head(t).k = "w" THEN lstrip(Tail(t)) ELSE t

RECURSIVE rstrip(_)
rstrip(t) ==
  IF t # <<>> /\ t[Len(t)].k = "w" THEN rstrip(SubSeq(t, 1, Len(t) - 1)) ELSE t

strip(t) == rstrip(lstrip(t))

----------------------------------------------------------------------------
(* Results of a call: a return value or a raised exception *)

NoMsg == [m |-> "none", val |-> JNone, text |-> <<>>]
\* an exception constructed from a decoded JSON value: PadzError(data['error'])
MsgValue(v) == [m |-> "value", val |-> v, text |-> <<>>]
\* an exception constructed from a text
MsgText(t) == [m |-> "text", val |-> JNone, text |-> t]

RNone == [r |-> "None"]
RText(t) == [r |-> "text", text |-> t]

Return(val) == [kind |-> "return", exc |-> "none", msg |-> NoMsg, val |-> val]
Raise(exc, msg) == [kind |-> "raise", exc |-> exc, msg |-> msg, val |-> RNone]
NoResult == [kind |-> "none", exc |-> "none", msg |-> NoMsg, val |-> RNone]

----------------------------------------------------------------------------
(* subprocess.run: the child's exit code and captured streams, or the     *)
(* exception raised while starting the child or reading from it           *)

Completed(rc, out, err) ==
  [exc |-> "none", cause |-> "", rc |-> rc, out |-> out, err |-> err]
Failed(exc, cause) ==
  [exc |-> exc, cause |-> cause, rc |-> 0, out |-> <<>>, err |-> <<>>]
NoSpawn == [exc |-> "nospawn", cause |-> "", rc |-> 0, out |-> <<>>, err |-> <<>>]

ErrorKey == <<"error">>

NotFoundMessage ==
  <<Word("padz command not found. Please ensure padz is installed and in PATH")>>

ExitCodeMessage(rc) ==
  <<Word("Command failed with exit code"), SP, Num(ToString(rc))>>

\* lines 92-99: an error object on stdout
StdoutError(sp) ==
  IF sp.out # <<>>
    THEN LET data == json_loads(sp.out)
         IN IF data.ok /\ IsDict(data.val) /\ ErrorKey \in DOMAIN data.val.m
              THEN Raise("PadzError", MsgValue(data.val.m[ErrorKey]))
              ELSE NoResult
    ELSE NoResult

\* as error_msg, with stdout taken before stderr
error_msg_stdout_first(sp) ==
  IF sp.out # <<>> THEN sp.out
  ELSE IF sp.err # <<>> THEN sp.err
  ELSE <<Word("Command failed with exit code"), SP, Num(ToString(sp.rc))>>

\* line 104: result.stderr or result.stdout or f"Command failed ..."
error_msg(sp) ==
  IF sp.err # <<>> THEN sp.err
  ELSE IF sp.out # <<>> THEN sp.out
  ELSE ExitCodeMessage(sp.rc)

\* as ExitCodeError, without the search for an "error" member
ExitCodeError_unparsed(sp) ==
  IF sp.rc # 0 THEN Raise("PadzError", MsgText(strip(error_msg(sp)))) ELSE NoResult

\* lines 102-111: a non-zero exit code
ExitCodeError(sp) ==
  IF sp.rc # 0
    THEN LET error_data == json_loads(error_msg(sp))
         IN IF error_data.ok /\ IsDict(error_data.val)
                 /\ ErrorKey \in DOMAIN error_data.val.m
              THEN Raise("PadzError", MsgValue(error_data.val.m[ErrorKey]))
              ELSE Raise("PadzError", MsgText(strip(error_msg(sp))))
    ELSE NoResult

\* as SpawnError, with except OSError in place of except FileNotFoundError
SpawnError_any_os_error(sp) ==
  IF sp.exc = "SubprocessError"
    THEN Raise("PadzError", MsgText(<<Word("Failed to execute command: "), Word(sp.cause)>>))
    ELSE IF sp.exc = "UnicodeDecodeError" THEN Raise(sp.exc, MsgText(<<Word(sp.cause)>>))
    ELSE Raise("PadzError", MsgText(NotFoundMessage))

\* lines 115-118: the except clauses around subprocess.run; any other
\* exception leaves _exec as it is
SpawnError(sp) ==
  CASE sp.exc = "FileNotFoundError" -> Raise("PadzError", MsgText(NotFoundMessage))
    [] sp.exc = "SubprocessError" ->
         Raise("PadzError", MsgText(<<Word("Failed to execute command: "), Word(sp.cause)>>))
    [] OTHER -> Raise(sp.exc, MsgText(<<Word(sp.cause)>>))

\* as _exec, with the exit code looked at before stdout
_exec_exit_code_first(sp) ==
  LET in_stdout == StdoutError(sp)
      in_exit_code == ExitCodeError(sp)
  IN IF sp.exc # "none" THEN SpawnError(sp)
     ELSE IF in_exit_code.kind = "raise" THEN in_exit_code
     ELSE IF in_stdout.kind = "raise" THEN in_stdout
     ELSE Return(RText(sp.out))

\* as _exec, returning result.stdout.strip()
_exec_stripped(sp) ==
  LET in_stdout == StdoutError(sp)
      in_exit_code == ExitCodeError(sp)
  IN IF sp.exc # "none" THEN SpawnError(sp)
     ELSE IF in_stdout.kind = "raise" THEN in_stdout
     ELSE IF in_exit_code.kind = "raise" THEN in_exit_code
     ELSE Return(RText(strip(sp.out)))

_exec(sp) ==
  LET in_stdout == StdoutError(sp)
      in_exit_code == ExitCodeError(sp)
  IN IF sp.exc # "none" THEN SpawnError(sp)
     ELSE IF in_stdout.kind = "raise" THEN in_stdout
     ELSE IF in_exit_code.kind = "raise" THEN in_exit_code
     ELSE Return(RText(sp.out))

----------------------------------------------------------------------------
(* What the child process may write, and how subprocess.run may end *)

S(c) == Str(<<c>>)

\* "key": value
Member(key, value) == <<S(key), Colon>> \o value

ErrorObject == <<LB>> \o Member("error", <<S("boom")>>) \o <<RB>>

\* { "error" : "boom" } with white space inside and around it
SpacedErrorObject ==
  <<SP, LB, SP, S("error"), SP, Colon, SP, S("boom"), SP, RB, NL>>

\* an error object whose message is not a string
NullErrorObject == <<LB>> \o Member("error", <<Lit("null")>>) \o <<RB>>

\* an error object with another member
ContentErrorObject ==
  <<LB>> \o Member("content", <<S("hi")>>) \o <<Comma>>
         \o Member("error", <<S("boom")>>) \o <<RB>>

\* the key "error" given twice
TwiceErrorObject ==
  <<LB>> \o Member("error", <<S("first")>>) \o <<Comma>>
         \o Member("error", <<S("boom")>>) \o <<RB>>

\* "error" below the top level only
ErrorInArray == <<LK>> \o ErrorObject \o <<RK>>
ErrorInObject == <<LB>> \o Member("data", ErrorObject) \o <<RB>>

\* an error object cut short, and one followed by more text
TruncatedErrorObject == SubSeq(ErrorObject, 1, Len(ErrorObject) - 1)
TrailedErrorObject == ErrorObject \o <<NL, Word("fatal")>>

ContentObject == <<LB>> \o Member("content", <<S("hi")>>) \o <<RB, NL>>
PathObject == <<LB>> \o Member("path", <<S("/tmp/a1")>>) \o <<RB>>

Timestamp(chunks) == <<Str(chunks)>>

ScratchObject(created_at) ==
  <<LB>> \o Member("id", <<S("a1")>>) \o <<Comma>>
         \o Member("project", <<S("demo")>>) \o <<Comma>>
         \o Member("title", <<S("note")>>) \o <<Comma>>
         \o Member("created_at", created_at) \o <<RB>>

UtcTime == Timestamp(<<"2024-01-01T00:00:00", "Z">>)
OffsetTime == Timestamp(<<"2024-01-01T00:00:00", "+00:00">>)
BadTime == Timestamp(<<"yesterday">>)

UntitledScratchObject ==
  <<LB>> \o Member("id", <<S("a1")>>) \o <<Comma>>
         \o Member("project", <<S("demo")>>) \o <<Comma>>
         \o Member("created_at", UtcTime) \o <<RB>>

ScratchArray ==
  <<LK>> \o ScratchObject(UtcTime) \o <<Comma, SP>> \o ScratchObject(OffsetTime) \o <<RK>>

NukeObject ==
  <<LB>> \o Member("deleted_count", <<Num("2")>>) \o <<Comma>>
         \o Member("scope", <<S("project")>>) \o <<Comma>>
         \o Member("project_name", <<S("demo")>>) \o <<RB>>

GlobalNukeObject ==
  <<LB>> \o Member("deleted_count", <<Num("0")>>) \o <<Comma>>
         \o Member("scope", <<S("global")>>) \o <<RB>>

ErrorDocuments ==
  { ErrorObject, SpacedErrorObject, NullErrorObject, ContentErrorObject,
    TwiceErrorObject, ErrorInArray, ErrorInObject, TruncatedErrorObject,
    TrailedErrorObject }

ResultDocuments ==
  { ContentObject, PathObject, ScratchObject(UtcTime), ScratchObject(OffsetTime),
    ScratchObject(BadTime), ScratchObject(<<Num("1704067200")>>),
    UntitledScratchObject, ScratchArray, <<LK, RK>>, <<LB, RB>>,
    <<LK>> \o ContentObject \o <<RK>>, NukeObject, GlobalNukeObject,
    <<S("hi")>>, <<Str(<<>>)>>, <<Lit("null")>> }

\* the lexemes of arbitrary text
Lexemes == { SP, Word("fatal"), LB, RB, S("error"), Num("1") }

TextsUpTo(n) == UNION { [1..k -> Lexemes] : k \in 0..n }

ExitCodes == (-1)..MaxExitCode

\* exceptions of subprocess.run: the executable or the working directory
\* is missing, the executable may not be run, another error of the
\* operating system, an error of the subprocess module, output that is
\* not text
SpawnFailures(dir) ==
  { Failed("FileNotFoundError", "No such file or directory: 'padz'"),
    Failed("PermissionError", "Permission denied: 'padz'"),
    Failed("OSError", "Exec format error: 'padz'"),
    Failed("SubprocessError", "Exception occurred in preexec_fn."),
    Failed("UnicodeDecodeError", "invalid start byte") }
  \cup IF dir = "None" THEN {}
       ELSE { Failed("FileNotFoundError", "No such file or directory: dir"),
              Failed("NotADirectoryError", "Not a directory: dir") }

Dirs == { "None", "/work" }

\* every way one call of subprocess.run may end, under _exec alone
ExecOutcomes ==
  { Completed(rc, out, err) :
      rc \in ExitCodes,
      out \in TextsUpTo(MaxOutLen) \cup ErrorDocuments \cup {ContentObject, ScratchArray},
      err \in TextsUpTo(MaxErrLen) \cup ErrorDocuments }
  \cup SpawnFailures("/work")

----------------------------------------------------------------------------
(* Results of the operations *)

RValue(v) == [r |-> "value", v |-> v]
RScratch(x) == [r |-> "Scratch", scratch |-> x]
RList(xs) == [r |-> "list", items |-> xs]
RNuke(x) == [r |-> "NukeResult", nuke |-> x]

\* data[key]
Subscript(data, key) ==
  IF ~IsDict(data) THEN Raise("TypeError", MsgText(<<Str(key)>>))
  ELSE IF key \notin DOMAIN data.m THEN Raise("KeyError", MsgText(<<Str(key)>>))
  ELSE Return(RValue(data.m[key]))

\* data.get(key)
Get(data, key) == IF key \in DOMAIN data.m THEN data.m[key] ELSE JNone

\* str.replace(old, new)
replace(chunks, old, new) ==
  [i \in DOMAIN chunks |-> IF chunks[i] = old THEN new ELSE chunks[i]]

DateTimes == { "2024-01-01T00:00:00" }
Offsets == { "+00:00", "+02:00" }

\* datetime.fromisoformat: a date and time, with or without an offset
fromisoformat(chunks) ==
  IF /\ Len(chunks) \in {1, 2}
     /\ chunks[1] \in DateTimes
     /\ Len(chunks) = 2 => chunks[2] \in Offsets
    THEN Return(RValue([datetime |-> chunks[1],
                        tzinfo |-> IF Len(chunks) = 2 THEN chunks[2] ELSE "None"]))
    ELSE Raise("ValueError", MsgText(<<Str(chunks)>>))

\* lines 30: datetime.fromisoformat(data['created_at'].replace('Z', '+00:00'))
created_at(data) ==
  LET v == Subscript(data, <<"created_at">>)
  IN IF v.kind = "raise" THEN v
     ELSE IF v.val.v.t # "str" THEN Raise("AttributeError", MsgText(<<Word("replace")>>))
     ELSE fromisoformat(replace(v.val.v.s, "Z", "+00:00"))

\* Scratch.from_dict
from_dict(data) ==
  LET id == Subscript(data, <<"id">>)
      project == Subscript(data, <<"project">>)
      title == Subscript(data, <<"title">>)
      created == created_at(data)
  IN CASE id.kind = "raise" -> id
       [] project.kind = "raise" -> project
       [] title.kind = "raise" -> title
       [] created.kind = "raise" -> created
       [] OTHER -> Return(RScratch([id |-> id.val.v, project |-> project.val.v,
                                    title |-> title.val.v,
                                    created_at |-> created.val.v]))

RECURSIVE from_dicts(_, _)
from_dicts(items, acc) ==
  IF items = <<>> THEN Return(RList(acc))
  ELSE LET x == from_dict(Head(items))
       IN IF x.kind = "raise" THEN x
          ELSE from_dicts(Tail(items), Append(acc, x.val.scratch))

\* [Scratch.from_dict(item) for item in data]: the items of a list, the
\* keys of a dict, the characters of a str; nothing else is iterable
scratches(data) ==
  CASE data.t = "arr" -> from_dicts(data.a, <<>>)
    [] data.t = "obj" ->
         IF DOMAIN data.m = {} THEN Return(RList(<<>>))
         ELSE Raise("TypeError", MsgText(<<Word("string indices")>>))
    [] data.t = "str" ->
         IF data.s = <<>> THEN Return(RList(<<>>))
         ELSE Raise("TypeError", MsgText(<<Word("string indices")>>))
    [] OTHER -> Raise("TypeError", MsgText(<<Word("not iterable")>>))

\* NukeResult(data['deleted_count'], data['scope'], data.get('project_name'))
nuke_result(data) ==
  LET deleted_count == Subscript(data, <<"deleted_count">>)
      scope == Subscript(data, <<"scope">>)
  IN CASE deleted_count.kind = "raise" -> deleted_count
       [] scope.kind = "raise" -> scope
       [] OTHER -> Return(RNuke([deleted_count |-> deleted_count.val.v,
                                 scope |-> scope.val.v,
                                 project_name |-> Get(data, <<"project_name">>)]))

\* data = json.loads(output), then the mapping of the operation
Mapped(opname, text) ==
  LET data == json_loads(text)
  IN CASE opname \in {"open", "delete", "cleanup"} -> Return(RNone)
       [] ~data.ok -> Raise("JSONDecodeError", MsgText(<<Word("Expecting value")>>))
       [] opname = "create" -> from_dict(data.val)
       [] opname \in {"list", "search"} -> scratches(data.val)
       [] opname \in {"view", "peek"} -> Subscript(data.val, <<"content">>)
       [] opname = "path" -> Subscript(data.val, <<"path">>)
       [] opname = "nuke" -> nuke_result(data.val)

----------------------------------------------------------------------------
(* The argument vectors *)

Flag(b, name) == IF b THEN <<name>> ELSE <<>>

create_args == <<"--format", "json">>

list_args(all, global_) ==
  <<"ls", "--format", "json">> \o Flag(all, "--all") \o Flag(global_, "--global")

view_args(index, all, global_) ==
  <<"view", ToString(index), "--format", "json">>
    \o Flag(all, "--all") \o Flag(global_, "--global")

open_args(index, all) ==
  <<"open", ToString(index), "--format", "json">> \o Flag(all, "--all")

peek_args(index, all, global_, lines) ==
  <<"peek", ToString(index), "--format", "json", "--lines", ToString(lines)>>
    \o Flag(all, "--all") \o Flag(global_, "--global")

delete_args(index, all) ==
  <<"delete", ToString(index), "--format", "json">> \o Flag(all, "--all")

path_args(index, all) ==
  <<"path", ToString(index), "--format", "json">> \o Flag(all, "--all")

search_args(term, all, global_) ==
  <<"search", term, "--format", "json">>
    \o Flag(all, "--all") \o Flag(global_, "--global")

\* as cleanup_args, without the output flag
cleanup_args_text(days) == <<"cleanup", "--days", ToString(days)>>

cleanup_args(days) == <<"cleanup", "--format", "json", "--days", ToString(days)>>

nuke_args(all) == <<"nuke", "--format", "json", "--yes">> \o Flag(all, "--all")

----------------------------------------------------------------------------
(* The inputs of the operations *)

Contents == { <<>>, <<Word("buy"), SP, Word("milk"), NL>> }
Indexes == 1..MaxIndex
LineCounts == { 3, 1 }
Terms == { "milk", "--all" }
DayCounts == { 30, 7 }

NoParams ==
  [content |-> <<>>, index |-> 0, all |-> FALSE, global_ |-> FALSE,
   lines |-> 0, term |-> "", days |-> 0, yes |-> FALSE]

\* every way one call of subprocess.run may end, under an operation
OpOutcomes(dir) ==
  { Completed(rc, out, err) :
      rc \in ExitCodes,
      out \in ResultDocuments
                \cup {ErrorObject, ErrorInArray, <<>>, <<Word("fatal")>>},
      err \in { <<>>, <<Word("fatal"), NL>> } }
  \cup SpawnFailures(dir)

----------------------------------------------------------------------------
(* The state machine *)

Init ==
  /\ pc = "idle"
  /\ cwd = "None"
  /\ op = "none"
  /\ params = NoParams
  /\ argv = <<>>
  /\ stdin = <<>>
  /\ spawn = NoSpawn
  /\ output = NoResult
  /\ result = NoResult
  /\ nPassed = 0
  /\ nSpawns = 0

\* as runs, with a second attempt after a failure
runs_retry(sp) == IF sp.exc # "none" \/ sp.rc # 0 THEN 2 ELSE 1

\* the number of times _exec calls subprocess.run (lines 82-89)
runs(sp) == 1

\* a call that fails its validation: the error is raised before _exec
Rejected(opname, ps, error) ==
  /\ pc = "idle"
  /\ pc' = "done"
  /\ op' = opname
  /\ params' = ps
  /\ result' = error
  /\ UNCHANGED <<cwd, argv, stdin, spawn, output, nPassed, nSpawns>>

\* a call that reaches _exec(args, input_text), and maps what it returns
Invoked(opname, ps, args, input_text) ==
  /\ pc = "idle"
  /\ nPassed < MaxCalls
  /\ \E sp \in OpOutcomes(cwd) :
       /\ spawn' = sp
       /\ nSpawns' = nSpawns + runs(sp)
       /\ output' = _exec(sp)
       /\ result' = IF output'.kind = "return"
                      THEN Mapped(opname, output'.val.text)
                      ELSE output'
  /\ pc' = "done"
  /\ op' = opname
  /\ params' = ps
  /\ argv' = <<"padz">> \o args
  /\ stdin' = input_text
  /\ nPassed' = nPassed + 1
  /\ UNCHANGED cwd

\* as create_rejects, with the check left out
create_rejects_nothing(content) == FALSE

\* line 133: if not content
create_rejects(content) == content = <<>>

\* line 299: if not yes
nuke_rejects(yes) == ~yes

Create ==
  \E content \in Contents :
    LET ps == [NoParams EXCEPT !.content = content]
    IN IF create_rejects(content)
         THEN Rejected("create", ps,
                       Raise("ValueError", MsgText(<<Word("Content cannot be empty")>>)))
         ELSE Invoked("create", ps, create_args, content)

List ==
  \E all \in BOOLEAN, global_ \in BOOLEAN :
    /\ pc = "idle"
    /\ Invoked("list", [NoParams EXCEPT !.all = all, !.global_ = global_],
               list_args(all, global_), <<>>)

View ==
  \E index \in Indexes, all \in BOOLEAN, global_ \in BOOLEAN :
    /\ pc = "idle"
    /\ Invoked("view",
               [NoParams EXCEPT !.index = index, !.all = all, !.global_ = global_],
               view_args(index, all, global_), <<>>)

Open ==
  \E index \in Indexes, all \in BOOLEAN :
    /\ pc = "idle"
    /\ Invoked("open", [NoParams EXCEPT !.index = index, !.all = all],
               open_args(index, all), <<>>)

Peek ==
  \E index \in Indexes, all \in BOOLEAN, global_ \in BOOLEAN, lines \in LineCounts :
    /\ pc = "idle"
    /\ Invoked("peek",
               [NoParams EXCEPT !.index = index, !.all = all, !.global_ = global_,
                                !.lines = lines],
               peek_args(index, all, global_, lines), <<>>)

Delete ==
  \E index \in Indexes, all \in BOOLEAN :
    /\ pc = "idle"
    /\ Invoked("delete", [NoParams EXCEPT !.index = index, !.all = all],
               delete_args(index, all), <<>>)

Path ==
  \E index \in Indexes, all \in BOOLEAN :
    /\ pc = "idle"
    /\ Invoked("path", [NoParams EXCEPT !.index = index, !.all = all],
               path_args(index, all), <<>>)

Search ==
  \E term \in Terms, all \in BOOLEAN, global_ \in BOOLEAN :
    /\ pc = "idle"
    /\ Invoked("search",
               [NoParams EXCEPT !.term = term, !.all = all, !.global_ = global_],
               search_args(term, all, global_), <<>>)

Cleanup ==
  \E days \in DayCounts :
    /\ pc = "idle"
    /\ Invoked("cleanup", [NoParams EXCEPT !.days = days], cleanup_args(days), <<>>)

Nuke ==
  \E all \in BOOLEAN, yes \in BOOLEAN :
    LET ps == [NoParams EXCEPT !.all = all, !.yes = yes]
    IN IF nuke_rejects(yes)
         THEN Rejected("nuke", ps,
                       Raise("PadzError",
                             MsgText(<<Word("Must set yes=True for non-interactive nuke operation")>>)))
         ELSE Invoked("nuke", ps, nuke_args(all), <<>>)

\* with_cwd: the calls that follow go through a client with that directory;
\* the module-level functions go through the default client, which has none
WithCwd ==
  \E dir \in Dirs :
    /\ pc = "idle"
    /\ dir # cwd
    /\ cwd' = dir
    /\ UNCHANGED <<pc, op, params, argv, stdin, spawn, output, result,
                   nPassed, nSpawns>>

\* the caller has the outcome; nothing of the call is kept
Finish ==
  /\ pc = "done"
  /\ pc' = "idle"
  /\ op' = "none"
  /\ params' = NoParams
  /\ argv' = <<>>
  /\ stdin' = <<>>
  /\ spawn' = NoSpawn
  /\ output' = NoResult
  /\ result' = NoResult
  /\ UNCHANGED <<cwd, nPassed, nSpawns>>

Next ==
  \/ Create \/ List \/ View \/ Open \/ Peek \/ Delete \/ Path \/ Search
  \/ Cleanup \/ Nuke \/ WithCwd \/ Finish

Spec == Init /\ [][Next]_vars

----------------------------------------------------------------------------
(* _exec on its own: every outcome of subprocess.run, interpreted *)

Exec ==
  /\ pc = "idle"
  /\ \E sp \in ExecOutcomes :
       /\ sp.exc = "none" \/ sp \in SpawnFailures(cwd)
       /\ spawn' = sp
       /\ output' = _exec(sp)
  /\ pc' = "done"
  /\ op' = "_exec"
  /\ argv' = <<"padz">>
  /\ UNCHANGED <<cwd, params, stdin, result, nPassed, nSpawns>>

NextExec == Exec \/ WithCwd \/ Finish

SpecExec == Init /\ [][NextExec]_vars

----------------------------------------------------------------------------
(* Properties of _exec, under SpecExec *)

Ops == { "create", "list", "view", "open", "peek", "delete", "path", "search",
         "cleanup", "nuke" }

\* the text is a JSON object with a member "error"
ErrorShaped(text) ==
  LET data == json_loads(text)
  IN text # <<>> /\ data.ok /\ data.val.t = "obj" /\ ErrorKey \in DOMAIN data.val.m

ErrorField(text) == json_loads(text).val.m[ErrorKey]

\* subprocess.run returned: the child ran and exited
ChildExited == pc = "done" /\ spawn.exc = "none"

\* subprocess.run raised
SpawnFailed == pc = "done" /\ spawn.exc \notin {"none", "nospawn"}

ExeMissing == Failed("FileNotFoundError", "No such file or directory: 'padz'")

\* C1: whatever the exit code and stderr, when stdout is a JSON object with
\* a member "error", _exec raises PadzError with the value of that member
\* as its message, and returns nothing.
C1_StdoutErrorRaised ==
  (ChildExited /\ ErrorShaped(spawn.out))
    => output = Raise("PadzError", MsgValue(ErrorField(spawn.out)))

\* an error object on stdout, exit code 0 and text on stderr
C1_Witness ==
  /\ ChildExited
  /\ spawn.rc = 0
  /\ spawn.err = <<Word("fatal")>>
  /\ spawn.out = SpacedErrorObject
  /\ output = Raise("PadzError", MsgValue(JStr(<<"boom">>)))

\* the text the failure message is taken from: stderr before stdout before
\* the synthesized text
ChosenText ==
  IF spawn.err # <<>> THEN spawn.err
  ELSE IF spawn.out # <<>> THEN spawn.out
  ELSE <<Word("Command failed with exit code"), SP, Num(ToString(spawn.rc))>>

\* C3: with a non-zero exit code and no error object on stdout, _exec
\* raises PadzError; the message is the "error" member of the chosen text
\* when that text is a JSON object with one, and the chosen text without
\* its leading and trailing white space otherwise.
C3_ExitCodeFailure ==
  (ChildExited /\ spawn.rc # 0 /\ ~ErrorShaped(spawn.out))
    => /\ output.kind = "raise"
       /\ output.exc = "PadzError"
       /\ output.msg = IF ErrorShaped(ChosenText)
                         THEN MsgValue(ErrorField(ChosenText))
                         ELSE MsgText(strip(ChosenText))

\* nothing on stderr, text with trailing white space on stdout
C3_Witness ==
  /\ ChildExited
  /\ spawn.rc # 0
  /\ spawn.err = <<>>
  /\ spawn.out = <<Word("fatal"), SP>>
  /\ output = Raise("PadzError", MsgText(<<Word("fatal")>>))

\* the messages that derive from stderr: its "error" member, or its text
FromStderr ==
  IF ErrorShaped(spawn.err) THEN { MsgValue(ErrorField(spawn.err)) }
  ELSE { MsgText(spawn.err), MsgText(strip(spawn.err)) }

\* C4 as stated: with a non-zero exit code and a non-empty stderr, the
\* failure message derives from stderr for every stdout.
C4_Original ==
  (ChildExited /\ spawn.rc # 0 /\ spawn.err # <<>>)
    => output.kind = "raise" /\ output.msg \in FromStderr

\* C4: with a non-zero exit code, a non-empty stderr and a stdout that is
\* not an error object, the failure message derives from stderr.
C4_StderrFirst ==
  (ChildExited /\ spawn.rc # 0 /\ spawn.err # <<>> /\ ~ErrorShaped(spawn.out))
    => /\ output.kind = "raise"
       /\ output.exc = "PadzError"
       /\ output.msg \in FromStderr

\* an error object on stderr, a result on stdout
C4_Witness ==
  /\ ChildExited
  /\ spawn.rc # 0
  /\ spawn.err = ErrorObject
  /\ spawn.out = ContentObject
  /\ output.msg = MsgValue(JStr(<<"boom">>))

C8_Claim ==
  (SpawnFailed /\ spawn # ExeMissing)
    => output.kind = "raise" /\ output.exc = "PadzError"

----------------------------------------------------------------------------
(* Properties of the operations, under Spec *)

\* the call did not pass the validation of its operation
InvalidCall ==
  \/ op = "create" /\ params.content = <<>>
  \/ op = "nuke" /\ ~params.yes

\* C5: create with empty content and nuke without yes raise and start no
\* child process.
C5_NoSpawnWhenInvalid ==
  [][(pc' = "done" /\ (\/ op' = "create" /\ params'.content = <<>>
                       \/ op' = "nuke" /\ ~params'.yes))
       => /\ nSpawns' = nSpawns
          /\ spawn' = NoSpawn
          /\ argv' = <<>>
          /\ output' = NoResult
          /\ result'.kind = "raise"]_vars

\* nuke(all=True) on a client with a working directory, after a call that
\* started a child
C5_Witness ==
  /\ pc = "done"
  /\ op = "nuke"
  /\ ~params.yes
  /\ params.all
  /\ cwd = "/work"
  /\ nSpawns = 1
  /\ spawn = NoSpawn
  /\ result.kind = "raise"

\* C6 as stated: every failure of every operation is a PadzError.
C6_Claim ==
  (pc = "done" /\ op \in Ops /\ result.kind = "raise") => result.exc = "PadzError"

\* C9: subprocess.run has been called once for each call that passed its
\* validation, and every such call has returned or raised.
C9_OneSpawnPerCall ==
  /\ nSpawns = nPassed
  /\ (pc = "done" /\ op \in Ops /\ ~InvalidCall)
       => spawn # NoSpawn /\ result.kind \in {"return", "raise"}
  /\ (pc = "done" /\ op \in Ops /\ InvalidCall) => spawn = NoSpawn

\* a second call, whose child exited with a non-zero code
C9_Witness ==
  /\ pc = "done"
  /\ op \in Ops
  /\ nPassed = 2
  /\ nSpawns = 2
  /\ spawn.exc = "none"
  /\ spawn.rc # 0
  /\ result.kind = "raise"

\* C10: every argument vector has "--format" followed by "json".
C10_FormatJson ==
  (op \in Ops /\ spawn # NoSpawn)
    => \E i \in 1..(Len(argv) - 1) : argv[i] = "--format" /\ argv[i + 1] = "json"

\* a search for a term that reads as a flag
C10_Witness ==
  /\ pc = "done"
  /\ op = "search"
  /\ argv = <<"padz", "search", "--all", "--format", "json", "--global">>

\* stdout is a JSON object or array, and no object with a member "error"
JsonResult(text) ==
  LET data == json_loads(text)
  IN data.ok /\ data.val.t \in {"obj", "arr"} /\ ~ErrorShaped(text)

Keys(d) == IF d.t = "obj" THEN DOMAIN d.m ELSE {}

\* a string that is a date and time, alone or followed by Z or an offset
IsoTime(v) ==
  /\ v.t = "str"
  /\ Len(v.s) \in {1, 2}
  /\ v.s[1] \in DateTimes
  /\ Len(v.s) = 2 => v.s[2] \in Offsets \cup {"Z"}

PointInTime(v) ==
  [datetime |-> v.s[1],
   tzinfo |-> IF Len(v.s) = 1 THEN "None"
              ELSE IF v.s[2] = "Z" THEN "+00:00" ELSE v.s[2]]

ScratchShaped(d) ==
  /\ {<<"id">>, <<"project">>, <<"title">>, <<"created_at">>} \subseteq Keys(d)
  /\ IsoTime(d.m[<<"created_at">>])

ScratchOf(d) ==
  [id |-> d.m[<<"id">>], project |-> d.m[<<"project">>], title |-> d.m[<<"title">>],
   created_at |-> PointInTime(d.m[<<"created_at">>])]

\* the parsed structure has what the operation reads from it
Shaped(opname, d) ==
  CASE opname \in {"open", "delete", "cleanup"} -> TRUE
    [] opname = "create" -> ScratchShaped(d)
    [] opname \in {"list", "search"} ->
         d.t = "arr" /\ \A i \in 1..Len(d.a) : ScratchShaped(d.a[i])
    [] opname \in {"view", "peek"} -> <<"content">> \in Keys(d)
    [] opname = "path" -> <<"path">> \in Keys(d)
    [] opname = "nuke" -> {<<"deleted_count">>, <<"scope">>} \subseteq Keys(d)

\* the value of the operation: the members of the parsed structure
ValueOf(opname, d) ==
  CASE opname \in {"open", "delete", "cleanup"} -> RNone
    [] opname = "create" -> RScratch(ScratchOf(d))
    [] opname \in {"list", "search"} ->
         RList([i \in 1..Len(d.a) |-> ScratchOf(d.a[i])])
    [] opname \in {"view", "peek"} -> RValue(d.m[<<"content">>])
    [] opname = "path" -> RValue(d.m[<<"path">>])
    [] opname = "nuke" ->
         RNuke([deleted_count |-> d.m[<<"deleted_count">>],
                scope |-> d.m[<<"scope">>],
                project_name |-> IF <<"project_name">> \in Keys(d)
                                   THEN d.m[<<"project_name">>] ELSE JNone])

====
